---- MODULE Spec2Model ----
(***************************************************************************)
(* State-machine model of loudness::PowerSpectrum                           *)
(* (src/src/modules/PowerSpectrum.cpp).                                     *)
(*                                                                          *)
(* One PowerSpectrum object is modelled.  Init is the object right after    *)
(* its constructor; the actions are the public operations: configure        *)
(* (Module::initialize -> initializeInternal), process (Module::process ->  *)
(* processInternal), setNormalisation and setReferenceValue.                *)
(*                                                                          *)
(* Numbers.  Band edges are whole Hz >= 0 and the sample rate is a positive *)
(* int, so bandFreqsHz_[i]*fftSize[i]/fs is a correctly rounded double      *)
(* quotient of two small integers and ceil() of it is the exact ceiling.    *)
(* Channels, ears and vector slots are numbered from 1 here (from 0 in the  *)
(* code); bin indices are the code's own.  A Real that is a quotient is     *)
(* kept as the quotient (numerator, denominator), never evaluated.          *)
(***************************************************************************)
EXTENDS Integers, Sequences, FiniteSets

\* ------------------------------------------------------------------ bounds
MaxWindows    == 2   \* at most this many windows (channels)
MaxWindowSize == 4   \* a window is 1 or MaxWindowSize samples long
MaxFreq       == 2   \* band edges are 0..MaxFreq Hz
MaxSamples    == 5   \* an input bank has 1 or MaxSamples samples per channel
MaxEars       == 1   \* ears of an input bank: 1..MaxEars
MaxFs         == 4   \* sample rates are MaxFs-1 and MaxFs Hz

WindowVals     == {1, MaxWindowSize}
SampleVals     == {1, MaxSamples}
FsVals         == {MaxFs - 1, MaxFs}
Normalisations == {"NONE", "ENERGY", "AVERAGE_POWER"}
RefVals        == {2, 10}          \* reference values, in units of 1e-5
DefaultRef     == 2                \* 2e-5

SeqsUpTo(S, n) == UNION {[1..k -> S] : k \in 1..n}

Inputs ==
    [nChannels : 1..MaxWindows, nSamples : SampleVals,
     fs : FsVals, nEars : 1..MaxEars]

VARIABLES
    bandFreqsHz_, windowSizes_, sampleSpectrumUniformly_,
    normalisation_, referenceValue_,
    ffts_, bandBinIndices_, normFactor_, output_,
    initialized_,
    fftSize, shape, written, fftCalls, last

params == <<bandFreqsHz_, windowSizes_, sampleSpectrumUniformly_>>
plan   == <<ffts_, bandBinIndices_, normFactor_, output_>>
vars   == <<bandFreqsHz_, windowSizes_, sampleSpectrumUniformly_,
            normalisation_, referenceValue_,
            ffts_, bandBinIndices_, normFactor_, output_,
            initialized_, fftSize, shape, written, fftCalls, last>>

\* ------------------------------------------------------------- helpers
RECURSIVE Pow2From(_, _)
Pow2From(p, n) == IF p >= n THEN p ELSE Pow2From(2 * p, n)

\* smallest power of two >= n
nextPowerOfTwo(n) == Pow2From(1, n)

anyAscendingValues(v) == \E i \in 1..(Len(v) - 1) : v[i] < v[i + 1]

\* ceil(a / b) for b > 0
Ceil(a, b) == -((-a) \div b)

\* what is known of the latest configure or process call: the operation,
\* how it ended, the channel count of configure's input bank, the band a
\* failing configure names, and whether configure was called with the
\* parameters and input bank of a successful configure just before it
NoCall == [op |-> "none", result |-> "ok", nChannels |-> 0, band |-> -1,
           again |-> FALSE]

NoInput == [nChannels |-> 0, nSamples |-> 0, fs |-> 0, nEars |-> 0]

NoShape == [input |-> NoInput, normalisation |-> "AVERAGE_POWER",
            referenceValue |-> DefaultRef]

NoOutput == [nEars |-> 0, nChannels |-> 0, nSamples |-> 0, fs |-> 0,
             centreFreqs |-> << >>]

Init ==
    /\ windowSizes_ \in SeqsUpTo(WindowVals, MaxWindows)
    /\ bandFreqsHz_ \in SeqsUpTo(0..MaxFreq, MaxWindows + 1)
    /\ sampleSpectrumUniformly_ \in BOOLEAN
    /\ normalisation_ = "AVERAGE_POWER"
    /\ referenceValue_ = DefaultRef
    /\ ffts_ = << >>
    /\ bandBinIndices_ = << >>
    /\ normFactor_ = << >>
    /\ output_ = NoOutput
    /\ initialized_ = FALSE
    /\ fftSize = << >>
    /\ shape = NoShape
    /\ written = << >>
    /\ fftCalls = << >>
    /\ last = NoCall

\* ------------------------------------------------- initializeInternal
\* (variant: the clear() is missing)
FftsKept(f) == f

\* ffts_.clear()
FftsCleared(f) == << >>

\* (variant: the order of the windows is not checked)
WindowsNotChecked(w) == FALSE

\* LOUDNESS_ASSERT(!anyAscendingValues(windowSizes_), ...)
WindowsAscend(w) == anyAscendingValues(w)

\* fftSize: nextPowerOfTwo(input.getNSamples()) for every window, replaced
\* by nextPowerOfTwo(windowSizes_[w]) unless the spectrum is sampled uniformly
FftSizes(input) ==
    [w \in 1..Len(windowSizes_) |->
        IF sampleSpectrumUniformly_
        THEN nextPowerOfTwo(input.nSamples)
        ELSE nextPowerOfTwo(windowSizes_[w])]

\* ffts_ after the push_backs, each engine given by its transform size
FftsBuilt(cleared, sizes) ==
    cleared \o (IF sampleSpectrumUniformly_ THEN <<sizes[1]>> ELSE sizes)

\* (variant: the quotient is truncated, as an int division would)
BinIndexTruncated(freq, n, fs) == (freq * n) \div fs

\* ceil(freq * fftSize / fs)
BinIndex(freq, n, fs) == Ceil(freq * n, fs)

\* nyqIdx = (fftSize/2) + (fftSize%2)
NyqIdx(n) == (n \div 2) + (n % 2)

\* exclude DC
ClampLo(lo) == IF lo = 0 THEN 1 ELSE lo

\* (variant: Nyquist and above are kept)
ClampHiMissing(hi, nyq) == hi

\* exclude Nyquist and above
ClampHi(hi, nyq) == IF (hi - 1) >= nyq THEN nyq ELSE hi

\* bandBinIndices_[i] as lines 80 and 82 leave it
RawBins(i, sizes, fs) ==
    <<BinIndex(bandFreqsHz_[i], sizes[i], fs),
      BinIndex(bandFreqsHz_[i + 1], sizes[i], fs)>>

\* bandBinIndices_[i] at the end of the loop body
BandBins(i, sizes, fs) ==
    <<ClampLo(RawBins(i, sizes, fs)[1]),
      ClampHi(RawBins(i, sizes, fs)[2], NyqIdx(sizes[i]))>>

\* the channels whose LOUDNESS_ASSERT(bandBinIndices_[i][1]>0) fails
EmptyBands(sizes, fs) ==
    {i \in 1..Len(windowSizes_) : ~(RawBins(i, sizes, fs)[2] > 0)}

Least(S) == CHOOSE m \in S : \A x \in S : m <= x

\* normFactor_[i]: value = num / (den * refSquared); refSquared is kept as
\* the square of the reference value in units of 1e-5
NormFactor(mode, n, w, ref) ==
    CASE mode = "NONE"          -> [num |-> 1, den |-> 1,     refSq |-> ref * ref]
      [] mode = "ENERGY"        -> [num |-> 2, den |-> n,     refSq |-> ref * ref]
      [] mode = "AVERAGE_POWER" -> [num |-> 2, den |-> n * w, refSq |-> ref * ref]
      [] OTHER                  -> [num |-> 2, den |-> n,     refSq |-> ref * ref]

ZeroReal == [num |-> 0, den |-> 1, refSq |-> 1]

\* vector::resize(n): old elements kept, new ones value-initialised
Resized(v, n, fill) == [i \in 1..n |-> IF i <= Len(v) THEN v[i] ELSE fill]

\* (variant: each range is counted as if its upper index were included)
RECURSIVE NBinsInclusive(_, _)
NBinsInclusive(bins, i) ==
    IF i > Len(bins) THEN 0
    ELSE (bins[i][2] - bins[i][1] + 1) + NBinsInclusive(bins, i + 1)

\* nBins += bandBinIndices_[i][1]-bandBinIndices_[i][0], over all channels
RECURSIVE NBins(_, _)
NBins(bins, i) ==
    IF i > Len(bins) THEN 0
    ELSE (bins[i][2] - bins[i][1]) + NBins(bins, i + 1)

\* the bins lo, lo+1, ..., hi-1 a while(j < hi) loop visits
RECURSIVE BinRun(_, _)
BinRun(lo, hi) == IF lo < hi THEN <<lo>> \o BinRun(lo + 1, hi) ELSE << >>

\* the calls output_.setCentreFreq(k++, (j++)*fs/(Real)fftSize[i]) in order
RECURSIVE CentreFreqs(_, _, _, _)
CentreFreqs(bins, sizes, fs, i) ==
    IF i > Len(bins) THEN << >>
    ELSE LET run == BinRun(bins[i][1], bins[i][2])
         IN  [k \in 1..Len(run) |-> [num |-> run[k] * fs, den |-> sizes[i]]]
             \o CentreFreqs(bins, sizes, fs, i + 1)

\* Module::initialize marks the module initialised once initializeInternal
\* has returned true
Initialized(ok, was) == IF ok THEN TRUE ELSE was

\* the call repeats a successful configure made just before it
Again(input) ==
    /\ last.op = "configure"
    /\ last.result = "ok"
    /\ shape = [input |-> input, normalisation |-> normalisation_,
                referenceValue |-> referenceValue_]

ConfigureCall(input, res, band) ==
    [op |-> "configure", result |-> res, nChannels |-> input.nChannels,
     band |-> band, again |-> Again(input)]

ConfigureFailsEarly(input, err) ==
    /\ ffts_' = FftsCleared(ffts_)
    /\ last' = ConfigureCall(input, err, -1)
    /\ initialized_' = Initialized(FALSE, initialized_)
    /\ UNCHANGED <<params, normalisation_, referenceValue_, bandBinIndices_,
                   normFactor_, output_, fftSize, shape, written, fftCalls>>

ConfigureFailsAtBand(input, sizes, f) ==
    LET nWindows == Len(windowSizes_)
        oldBins  == Resized(bandBinIndices_, nWindows, << >>)
        oldNorm  == Resized(normFactor_, nWindows, ZeroReal)
    IN  /\ ffts_' = FftsBuilt(FftsCleared(ffts_), sizes)
        /\ fftSize' = sizes
        /\ bandBinIndices_' =
              [i \in 1..nWindows |->
                  IF i < f THEN BandBins(i, sizes, input.fs)
                  ELSE IF i = f THEN RawBins(i, sizes, input.fs)
                  ELSE oldBins[i]]
        /\ normFactor_' =
              [i \in 1..nWindows |->
                  IF i < f
                  THEN NormFactor(normalisation_, sizes[i], windowSizes_[i],
                                  referenceValue_)
                  ELSE oldNorm[i]]
        /\ last' = ConfigureCall(input, "EmptyBand", f - 1)
        /\ initialized_' = Initialized(FALSE, initialized_)
        /\ UNCHANGED <<params, normalisation_, referenceValue_, output_,
                       shape, written, fftCalls>>

ConfigureSucceeds(input, sizes) ==
    LET nWindows == Len(windowSizes_)
        bins == [i \in 1..nWindows |-> BandBins(i, sizes, input.fs)]
    IN  /\ ffts_' = FftsBuilt(FftsCleared(ffts_), sizes)
        /\ fftSize' = sizes
        /\ bandBinIndices_' = bins
        /\ normFactor_' =
              [i \in 1..nWindows |->
                  NormFactor(normalisation_, sizes[i], windowSizes_[i],
                             referenceValue_)]
        /\ output_' = [nEars |-> input.nEars, nChannels |-> NBins(bins, 1),
                       nSamples |-> 1, fs |-> input.fs,
                       centreFreqs |-> CentreFreqs(bins, sizes, input.fs, 1)]
        /\ written' = [e \in 1..input.nEars |-> << >>]
        /\ shape' = [input |-> input, normalisation |-> normalisation_,
                      referenceValue |-> referenceValue_]
        /\ last' = ConfigureCall(input, "ok", -1)
        /\ initialized_' = Initialized(TRUE, initialized_)
        /\ UNCHANGED <<params, normalisation_, referenceValue_, fftCalls>>

configure(input) ==
    /\ last.result # "crash"
    /\ LET nWindows == Len(windowSizes_)
           sizes    == FftSizes(input)
       IN  IF input.nChannels # nWindows
           THEN ConfigureFailsEarly(input, "ShapeMismatch")
           ELSE IF Len(bandFreqsHz_) # nWindows + 1
           THEN ConfigureFailsEarly(input, "ShapeMismatch")
           ELSE IF WindowsAscend(windowSizes_)
           THEN ConfigureFailsEarly(input, "InvalidParameter")
           ELSE IF EmptyBands(sizes, input.fs) # {}
           THEN ConfigureFailsAtBand(input, sizes,
                                     Least(EmptyBands(sizes, input.fs)))
           ELSE ConfigureSucceeds(input, sizes)

\* ---------------------------------------------------- processInternal
\* (variant: process runs whatever the state)
MayAlwaysProcess(init) == TRUE

\* Module::process runs processInternal only on an initialised module
MayProcess(init) == init

\* fftIdx of channel chn (a slot of ffts_)
EngineOf(chn) == IF sampleSpectrumUniformly_ THEN 1 ELSE chn

\* every ffts_[fftIdx], bandBinIndices_[chn][0..1] and normFactor_[chn]
\* that processInternal uses exists
ProcessDefined ==
    \A chn \in 1..Len(windowSizes_) :
        /\ EngineOf(chn) <= Len(ffts_)
        /\ chn <= Len(bandBinIndices_)
        /\ Len(bandBinIndices_[chn]) = 2
        /\ chn <= Len(normFactor_)

\* the stores *outputSignal++ = normFactor_[chn] * (re*re + im*im) of one
\* ear, in order: the channel, the bin read and the factor applied
RECURSIVE EarWrites(_)
EarWrites(chn) ==
    IF chn > Len(windowSizes_) THEN << >>
    ELSE LET run == BinRun(bandBinIndices_[chn][1], bandBinIndices_[chn][2])
         IN  [k \in 1..Len(run) |->
                 [chn |-> chn, bin |-> run[k], norm |-> normFactor_[chn]]]
             \o EarWrites(chn + 1)

\* the calls ffts_[fftIdx]->process(..., windowSizes_[chn]) of one ear
EarFftCalls ==
    [chn \in 1..Len(windowSizes_) |->
        [engine |-> EngineOf(chn), nSamples |-> windowSizes_[chn]]]

\* the frame has the configured number of ears
FrameEars ==
    IF shape.input = NoInput THEN 1..MaxEars ELSE {shape.input.nEars}

ProcessCall(res) ==
    [op |-> "process", result |-> res, nChannels |-> 0, band |-> -1,
     again |-> FALSE]

process(nEars) ==
    /\ last.result # "crash"
    /\ IF ~MayProcess(initialized_)
       THEN /\ last' = ProcessCall("NotConfigured")
            /\ UNCHANGED <<params, normalisation_, referenceValue_, plan,
                           initialized_, fftSize, shape, written, fftCalls>>
       ELSE IF ProcessDefined
       THEN /\ written' = [e \in 1..nEars |-> EarWrites(1)]
            /\ fftCalls' = [e \in 1..nEars |-> EarFftCalls]
            /\ last' = ProcessCall("ok")
            /\ UNCHANGED <<params, normalisation_, referenceValue_, plan,
                           initialized_, fftSize, shape>>
       ELSE \* ffts_[fftIdx] or bandBinIndices_[chn] does not exist: undefined
            \* behaviour.  The run either dies, or goes on with whatever is
            \* read; with the bin ranges in place it then stores as usual.
            \E outcome \in {"crash", "undefined"} :
                /\ last' = ProcessCall(outcome)
                /\ IF /\ outcome = "undefined"
                      /\ \A chn \in 1..Len(windowSizes_) :
                            /\ chn <= Len(bandBinIndices_)
                            /\ Len(bandBinIndices_[chn]) = 2
                            /\ chn <= Len(normFactor_)
                   THEN /\ written' = [e \in 1..nEars |-> EarWrites(1)]
                        /\ fftCalls' = [e \in 1..nEars |-> EarFftCalls]
                   ELSE UNCHANGED <<written, fftCalls>>
                /\ UNCHANGED <<params, normalisation_, referenceValue_, plan,
                               initialized_, fftSize, shape>>

\* ------------------------------------------------------------ setters
setNormalisation(n) ==
    /\ last.result # "crash"
    /\ normalisation_' = n
    /\ UNCHANGED <<params, referenceValue_, plan, initialized_, fftSize,
                   shape, written, fftCalls, last>>

setReferenceValue(r) ==
    /\ last.result # "crash"
    /\ referenceValue_' = r
    /\ UNCHANGED <<params, normalisation_, plan, initialized_, fftSize,
                   shape, written, fftCalls, last>>

Next ==
    \/ \E input \in Inputs : configure(input)
    \/ \E nEars \in FrameEars : process(nEars)
    \/ \E n \in Normalisations : setNormalisation(n)
    \/ \E r \in RefVals : setReferenceValue(r)

Spec == Init /\ [][Next]_vars

\* the object used with the constructor's normalisation and reference value
NextDefault ==
    \/ \E input \in Inputs : configure(input)
    \/ \E nEars \in FrameEars : process(nEars)

SpecDefault == Init /\ [][NextDefault]_vars

\* ============================================================== claims
ConfigureErrors == {"ShapeMismatch", "InvalidParameter", "EmptyBand"}

\* the latest call was a configure that succeeded
Accepted == last.op = "configure" /\ last.result = "ok"

\* the latest call was a process that ran to its end
Processed == last.op = "process" /\ last.result = "ok"

Channels == 1..Len(windowSizes_)

\* floor(n/2) + (1 if n is odd else 0)
HalfSpectrum(n) == (n \div 2) + (IF n % 2 = 1 THEN 1 ELSE 0)

RECURSIVE WidthUpTo(_)
WidthUpTo(n) ==
    IF n = 0 THEN 0
    ELSE WidthUpTo(n - 1) + (bandBinIndices_[n][2] - bandBinIndices_[n][1])

RECURSIVE HalfSizeUpTo(_)
HalfSizeUpTo(n) ==
    IF n = 0 THEN 0 ELSE HalfSizeUpTo(n - 1) + (fftSize[n] \div 2)

LargestWindow ==
    CHOOSE m \in {windowSizes_[i] : i \in Channels} :
        \A i \in Channels : windowSizes_[i] <= m

\* C1: a configure that fails with ShapeMismatch, InvalidParameter or
\* EmptyBand leaves the FFT engines, the per-channel bin ranges, the
\* normalisation factors, the output shape and the centre frequencies
\* exactly as they were before the call.
C1_FailedConfigureChangesNothing ==
    [][(last'.op = "configure" /\ last'.result \in ConfigureErrors)
        => /\ ffts_' = ffts_
           /\ bandBinIndices_' = bandBinIndices_
           /\ normFactor_' = normFactor_
           /\ output_' = output_]_vars

\* C2: after every successful configure every channel's clamped bin range
\* is non-empty, binLo < binHi (a channel whose range has zero or negative
\* width makes configure fail with EmptyBand).
C2_AcceptedBandsNonEmpty ==
    Accepted =>
        \A i \in Channels : bandBinIndices_[i][1] < bandBinIndices_[i][2]

\* C3: a process call made before any successful configure fails with
\* NotConfigured, touches no FFT engine and writes no output.
C3_ProcessNeedsConfigure ==
    [][(~initialized_ /\ last'.op = "process")
        => /\ last'.result = "NotConfigured"
           /\ ffts_' = ffts_
           /\ fftCalls' = fftCalls
           /\ written' = written
           /\ output_' = output_]_vars

\* a process call was refused although an earlier configure, which failed
\* with EmptyBand, had already written bin ranges
C3_Witness ==
    /\ last.op = "process"
    /\ last.result = "NotConfigured"
    /\ ~initialized_
    /\ Len(bandBinIndices_) > 0

\* C4 (as stated): whenever the window sizes hold an ascending adjacent
\* pair, configure fails with InvalidParameter, whatever the band edges,
\* their count and the input bank are.
C4_AscendingAlwaysInvalidParameter ==
    (last.op = "configure" /\ anyAscendingValues(windowSizes_))
        => last.result = "InvalidParameter"

\* C4 (amended): whenever the window sizes hold an ascending adjacent pair,
\* configure fails: with InvalidParameter when the input bank has as many
\* channels as there are windows and there is one band edge more than
\* windows, and with ShapeMismatch otherwise.
C4_AscendingWindowsFail ==
    (last.op = "configure" /\ anyAscendingValues(windowSizes_))
        => last.result =
              (IF /\ last.nChannels = Len(windowSizes_)
                  /\ Len(bandFreqsHz_) = Len(windowSizes_) + 1
               THEN "InvalidParameter"
               ELSE "ShapeMismatch")

\* a configure with matching counts was refused for ascending windows
C4_Witness ==
    /\ last.op = "configure"
    /\ anyAscendingValues(windowSizes_)
    /\ last.nChannels = Len(windowSizes_)
    /\ Len(bandFreqsHz_) = Len(windowSizes_) + 1
    /\ last.result = "InvalidParameter"

\* C5: after every successful configure the declared output width is the
\* sum over the channels of binHi - binLo (after clamping), and it is at
\* most the sum over the channels of fftSize/2.
C5_WidthIsSumOfBands ==
    Accepted =>
        /\ output_.nChannels = WidthUpTo(Len(windowSizes_))
        /\ output_.nChannels <= HalfSizeUpTo(Len(windowSizes_))

\* an accepted configuration of width two or more with a band cut at Nyquist
C5_Witness ==
    /\ Accepted
    /\ output_.nChannels >= 2
    /\ \E i \in Channels :
          RawBins(i, fftSize, output_.fs)[2] > bandBinIndices_[i][2]

\* C6: no bin that process reads and emits is at or above
\* floor(fftSize/2) + (1 if fftSize is odd else 0) of the engine it is
\* read from.
C6_NoBinAtOrAboveNyquist ==
    Processed =>
        \A e \in DOMAIN written : \A k \in DOMAIN written[e] :
            written[e][k].bin <
                HalfSpectrum(ffts_[EngineOf(written[e][k].chn)])

\* process emitted the last bin below Nyquist of a band that reached past it
C6_Witness ==
    /\ Processed
    /\ \E e \in DOMAIN written : \E k \in DOMAIN written[e] :
          LET w == written[e][k]
          IN  /\ w.bin + 1 = HalfSpectrum(ffts_[EngineOf(w.chn)])
              /\ RawBins(w.chn, fftSize, output_.fs)[2] >
                    HalfSpectrum(ffts_[EngineOf(w.chn)])

\* C7: after a successful configure, a bin k with 1 <= k < nyquist is in
\* channel i's range [binLo, binHi) exactly when
\* edge[i]*fftSize[i] <= k*fs < edge[i+1]*fftSize[i].
C7_HalfOpenBandSelection ==
    Accepted =>
        \A i \in Channels :
            \A k \in 1..(HalfSpectrum(fftSize[i]) - 1) :
                (bandBinIndices_[i][1] <= k /\ k < bandBinIndices_[i][2])
                <=> /\ bandFreqsHz_[i] * fftSize[i] <= k * output_.fs
                    /\ k * output_.fs < bandFreqsHz_[i + 1] * fftSize[i]

\* an accepted configuration with a bin exactly on a band's upper edge, left
\* out of that band while the bin below it is in, and a bin exactly on a
\* band's lower edge, taken into that band
C7_Witness ==
    /\ Accepted
    /\ \E i \in Channels : \E k \in 1..(HalfSpectrum(fftSize[i]) - 1) :
          /\ k * output_.fs = bandFreqsHz_[i + 1] * fftSize[i]
          /\ bandBinIndices_[i][2] = k
          /\ bandBinIndices_[i][1] < k
    /\ \E i \in Channels : \E k \in 1..(HalfSpectrum(fftSize[i]) - 1) :
          /\ k * output_.fs = bandFreqsHz_[i] * fftSize[i]
          /\ bandBinIndices_[i][1] = k
          /\ k < bandBinIndices_[i][2]

\* C8: after a successful configure, channel i's fftSize is the smallest
\* power of two >= windowSizes[i] without uniform sampling, and the
\* smallest power of two >= the largest window size with it, whatever the
\* input bank's samples per channel.
C8_FftSizeCoversWindows ==
    Accepted =>
        \A i \in Channels :
            fftSize[i] =
                (IF sampleSpectrumUniformly_
                 THEN nextPowerOfTwo(LargestWindow)
                 ELSE nextPowerOfTwo(windowSizes_[i]))

\* C9: a configure called with the parameters and the input bank of a
\* successful configure made just before it succeeds too, and leaves the
\* FFT engines, the per-channel fftSize, bin ranges and normalisation
\* factors, the output shape and the centre frequencies as they were.
C9_ConfigureIdempotent ==
    [][(last'.op = "configure" /\ last'.again)
        => /\ last'.result = "ok"
           /\ ffts_' = ffts_
           /\ fftSize' = fftSize
           /\ bandBinIndices_' = bandBinIndices_
           /\ normFactor_' = normFactor_
           /\ output_' = output_]_vars

\* a successful configure was repeated, on a plan that emits bins
C9_Witness ==
    /\ last.op = "configure"
    /\ last.again
    /\ last.result = "ok"
    /\ Len(ffts_) > 0
    /\ Len(output_.centreFreqs) > 0

\* C10: each process call stores, per ear, exactly the declared output
\* width of values, and the bins it stores are, in order, the bins whose
\* centre frequencies configure stored.
C10_ProcessFillsDeclaredWidth ==
    Processed =>
        \A e \in DOMAIN written :
            /\ Len(written[e]) = output_.nChannels
            /\ [k \in 1..Len(written[e]) |->
                   [num |-> written[e][k].bin * output_.fs,
                    den |-> ffts_[EngineOf(written[e][k].chn)]]]
               = output_.centreFreqs
====
